---- MODULE Spec2Model ----
(***************************************************************************)
(* UDSP API Gateway: the per-service circuit breaker middleware            *)
(* (services/api-gateway/src/middleware/circuit-breaker.ts), the JWT       *)
(* authentication middleware (middleware/auth.ts) and the way the gateway  *)
(* entry point wires them together with the rate limiter, the request      *)
(* validator and the service proxies.                                      *)
(*                                                                         *)
(* Two specifications share the state:                                     *)
(*   Spec         the gateway as wired by APIGateway.start(): the circuit  *)
(*                breaker is mounted at '/v1', the routes are the five     *)
(*                service proxies, /health, '/' and the 404 handler.       *)
(*   SpecBreaker  the exported circuitBreaker middleware on its own: it is *)
(*                called with the request path it was written for          *)
(*                (/v1/<service>/...), and the rest of the chain is any    *)
(*                Express handler that answers through res.send, at once   *)
(*                or after a downstream round trip.                        *)
(*                                                                         *)
(* Node runs every handler to completion, so one action is one synchronous *)
(* run of the middleware chain or one completion callback.                 *)
(***************************************************************************)
EXTENDS Integers, Sequences, FiniteSets, Bags, TLC

\* ------------------------------------------------------------------------
\* Bounds of the model
\* ------------------------------------------------------------------------
MaxTime == 4
MaxInFlight == 3
MaxFailures == 10
ResetTimeoutMs == 2
RateLimitMax == 2
RateLimitWindowMs == 3
TokenExp == 2

\* ------------------------------------------------------------------------
\* Program constants
\* ------------------------------------------------------------------------
ErrorThresholdPercentage == 50
FailureWindow == 10
StreakCap == 10

NoService == "null"

\* ------------------------------------------------------------------------
\* Paths: a path is the sequence of its segments, "/v1/identities/1" is
\* <<"v1", "identities", "1">>.  A segment of WordSegments starts with a
\* character of \w; "~" stands for a segment that does not.
\* ------------------------------------------------------------------------
WordSegments == {"v1", "identities", "credentials", "blockchain", "compliance",
                 "auth", "unknown", "health", "login", "1"}

ServiceNames == WordSegments

\* getServiceFromPath: path.match(/^\/v1\/(\w+)/), the first capture or null
getServiceFromPath(path) ==
    IF Len(path) >= 2 /\ path[1] = "v1" /\ path[2] \in WordSegments
    THEN path[2]
    ELSE NoService

\* ------------------------------------------------------------------------
\* Circuit registry: the Map<string, CircuitState> `circuits`
\* ------------------------------------------------------------------------
NewCircuit == [failures |-> 0, lastFailureTime |-> 0, state |-> "CLOSED"]

getOrCreateCircuit(cs, serviceName) ==
    IF serviceName \in DOMAIN cs THEN cs ELSE cs @@ (serviceName :> NewCircuit)

\* (slip: the failure count itself compared with the percentage)
ThresholdReached_count(failures) ==
    failures >= ErrorThresholdPercentage

\* (slip: the rate has to exceed the threshold)
ThresholdReached_strict(failures) ==
    failures * 100 > ErrorThresholdPercentage * FailureWindow

\* failureRate >= errorThresholdPercentage / 100, with failureRate = failures / 10
ThresholdReached(failures) ==
    failures * 100 >= ErrorThresholdPercentage * FailureWindow

\* (slip: one failure count shared by all circuits)
recordFailure_shared(cs, serviceName, t) ==
    LET c0 == getOrCreateCircuit(cs, serviceName)
    IN  [s \in DOMAIN c0 |->
            IF s = serviceName
            THEN [failures |-> c0[s].failures + 1,
                  lastFailureTime |-> t,
                  state |-> IF ThresholdReached(c0[s].failures + 1) THEN "OPEN"
                            ELSE c0[s].state]
            ELSE [c0[s] EXCEPT !.failures = @ + 1]]

\* (slip: the time of the failure is stamped only when the circuit opens)
recordFailure_stampOnOpen(cs, serviceName, t) ==
    LET c0 == getOrCreateCircuit(cs, serviceName)
        c  == c0[serviceName]
        f  == c.failures + 1
    IN  [c0 EXCEPT ![serviceName] =
            [failures |-> f,
             lastFailureTime |-> IF ThresholdReached(f) /\ c.state # "OPEN"
                                 THEN t ELSE c.lastFailureTime,
             state |-> IF ThresholdReached(f) THEN "OPEN" ELSE c.state]]

\* recordFailure(serviceName): count, stamp, open at the threshold
recordFailure(cs, serviceName, t) ==
    LET c0 == getOrCreateCircuit(cs, serviceName)
        c  == c0[serviceName]
        f  == c.failures + 1
    IN  [c0 EXCEPT ![serviceName] =
            [failures |-> f,
             lastFailureTime |-> t,
             state |-> IF ThresholdReached(f) THEN "OPEN" ELSE c.state]]

\* (slip: the HALF_OPEN branch closes the circuit without resetting the count)
recordSuccess_keepCount(cs, serviceName) ==
    LET c0 == getOrCreateCircuit(cs, serviceName)
        c  == c0[serviceName]
    IN  IF c.state = "HALF_OPEN"
        THEN [c0 EXCEPT ![serviceName].state = "CLOSED"]
        ELSE [c0 EXCEPT ![serviceName].failures =
                IF c.failures - 1 > 0 THEN c.failures - 1 ELSE 0]

\* (slip: a success closes the circuit whenever it is not CLOSED)
recordSuccess_anyPhase(cs, serviceName) ==
    LET c0 == getOrCreateCircuit(cs, serviceName)
        c  == c0[serviceName]
    IN  IF c.state # "CLOSED"
        THEN [c0 EXCEPT ![serviceName] =
                [failures |-> 0, lastFailureTime |-> c.lastFailureTime, state |-> "CLOSED"]]
        ELSE [c0 EXCEPT ![serviceName].failures =
                IF c.failures - 1 > 0 THEN c.failures - 1 ELSE 0]

\* (slip: a success of a circuit that is not HALF_OPEN clears the count)
recordSuccess_reset(cs, serviceName) ==
    LET c0 == getOrCreateCircuit(cs, serviceName)
        c  == c0[serviceName]
    IN  IF c.state = "HALF_OPEN"
        THEN [c0 EXCEPT ![serviceName] =
                [failures |-> 0, lastFailureTime |-> c.lastFailureTime, state |-> "CLOSED"]]
        ELSE [c0 EXCEPT ![serviceName].failures = 0]

\* (slip: the count decremented without the floor at 0)
recordSuccess_noFloor(cs, serviceName) ==
    LET c0 == getOrCreateCircuit(cs, serviceName)
        c  == c0[serviceName]
    IN  IF c.state = "HALF_OPEN"
        THEN [c0 EXCEPT ![serviceName] =
                [failures |-> 0, lastFailureTime |-> c.lastFailureTime, state |-> "CLOSED"]]
        ELSE [c0 EXCEPT ![serviceName].failures = c.failures - 1]

recordSuccess(cs, serviceName) ==
    LET c0 == getOrCreateCircuit(cs, serviceName)
        c  == c0[serviceName]
    IN  IF c.state = "HALF_OPEN"
        THEN [c0 EXCEPT ![serviceName] =
                [failures |-> 0, lastFailureTime |-> c.lastFailureTime, state |-> "CLOSED"]]
        ELSE [c0 EXCEPT ![serviceName].failures =
                IF c.failures - 1 > 0 THEN c.failures - 1 ELSE 0]

\* the wrapped res.send: statusCode >= 500 is a failure, anything else a success
sendWrapper(cs, serviceName, statusCode, t) ==
    IF statusCode >= 500
    THEN recordFailure(cs, serviceName, t)
    ELSE recordSuccess(cs, serviceName)

\* (slip: the timeout taken one tick short)
gateRejects_short(c, t) ==
    c.state = "OPEN" /\ t - c.lastFailureTime < ResetTimeoutMs - 1

\* (slip: the gate never looks at the age of the last failure)
gateRejects_stuck(c, t) ==
    c.state = "OPEN"

\* (slip: the gate looks at the age of the last failure in every phase)
gateRejects_anyState(c, t) ==
    t - c.lastFailureTime < ResetTimeoutMs

\* the gate of circuitBreaker (lines 27-41): TRUE when the request is answered 503
gateRejects(c, t) ==
    c.state = "OPEN" /\ t - c.lastFailureTime < ResetTimeoutMs

\* (slip: a rejection restarts the reset timeout)
admit_restart(cs, serviceName, t) ==
    LET c0 == getOrCreateCircuit(cs, serviceName)
        c  == c0[serviceName]
    IN  IF gateRejects(c, t)
        THEN [circuits |-> [c0 EXCEPT ![serviceName].lastFailureTime = t],
              service |-> serviceName, rejected |-> TRUE, wrapped |-> FALSE]
        ELSE [circuits |->
                  IF c.state = "OPEN"
                  THEN [c0 EXCEPT ![serviceName].state = "HALF_OPEN"]
                  ELSE c0,
              service |-> serviceName, rejected |-> FALSE, wrapped |-> TRUE]

\* circuitBreaker from line 25 on, for a resolved service name, up to the point
\* where it either answers 503 or installs the res.send wrapper and calls next()
admit(cs, serviceName, t) ==
    LET c0 == getOrCreateCircuit(cs, serviceName)
        c  == c0[serviceName]
    IN  IF gateRejects(c, t)
        THEN [circuits |-> c0, service |-> serviceName,
              rejected |-> TRUE, wrapped |-> FALSE]
        ELSE [circuits |->
                  IF c.state = "OPEN"
                  THEN [c0 EXCEPT ![serviceName].state = "HALF_OPEN"]
                  ELSE c0,
              service |-> serviceName, rejected |-> FALSE, wrapped |-> TRUE]

\* circuitBreaker(req, res, next) with req.path = path: the registry afterwards,
\* the resolved service name, whether it answered 503, whether it wrapped res.send
circuitBreaker(cs, path, t) ==
    LET serviceName == getServiceFromPath(path) IN
    IF serviceName = NoService
    THEN [circuits |-> cs, service |-> NoService, rejected |-> FALSE, wrapped |-> FALSE]
    ELSE admit(cs, serviceName, t)

\* ------------------------------------------------------------------------
\* Token validation (middleware/auth.ts)
\* ------------------------------------------------------------------------
\* A token is what jwt.verify can tell about it: whether its signature
\* verifies against config.jwt.secret, its exp claim and the sub and tenantId
\* claims ("" when absent).
NeverExp == MaxTime + 1

Tokens ==
    { [sig |-> "ok",  exp |-> NeverExp, sub |-> "u1", tenantId |-> "t1"],
      [sig |-> "ok",  exp |-> TokenExp, sub |-> "u1", tenantId |-> "t1"],
      [sig |-> "bad", exp |-> NeverExp, sub |-> "u1", tenantId |-> "t1"],
      [sig |-> "bad", exp |-> TokenExp, sub |-> "u1", tenantId |-> "t1"],
      [sig |-> "ok",  exp |-> NeverExp, sub |-> "u1", tenantId |-> ""],
      [sig |-> "ok",  exp |-> NeverExp, sub |-> "",   tenantId |-> "t1"] }

GoodToken == [sig |-> "ok", exp |-> NeverExp, sub |-> "u1", tenantId |-> "t1"]

\* req.headers.authorization; scheme "" is the header being absent
NoHeader == [scheme |-> "", token |-> GoodToken]

AuthHeaders ==
    {NoHeader}
    \cup {[scheme |-> "Bearer", token |-> k] : k \in Tokens}
    \cup {[scheme |-> "Service", token |-> GoodToken],
          [scheme |-> "Basic", token |-> GoodToken]}

NoUser == [id |-> "", tenantId |-> ""]

\* jwt.verify(token, secret): the signature is checked first, then exp;
\* the error class thrown, or "" when the payload is returned
jwtVerify(token, t) ==
    IF token.sig # "ok" THEN "JsonWebTokenError"
    ELSE IF t >= token.exp THEN "TokenExpiredError"
    ELSE ""

\* error instanceof cls, for the error classes of jsonwebtoken:
\* TokenExpiredError and NotBeforeError inherit from JsonWebTokenError
instanceof(error, cls) ==
    \/ error = cls
    \/ cls = "JsonWebTokenError" /\ error \in {"TokenExpiredError", "NotBeforeError"}

Reply(status, error, message) ==
    [next |-> FALSE, status |-> status, error |-> error, message |-> message,
     user |-> NoUser]

PassOn(user) ==
    [next |-> TRUE, status |-> 0, error |-> "", message |-> "", user |-> user]

\* (slip: the payload check asks for the subject id only)
checkHeader_anyPayload(authHeader, t) ==
    IF authHeader.scheme \notin {"Bearer", "Service"}
    THEN Reply(401, "Unauthorized", "Invalid authorization header format")
    ELSE LET error == jwtVerify(authHeader.token, t) IN
         IF error = ""
         THEN IF authHeader.token.sub = ""
              THEN Reply(401, "Unauthorized", "Invalid token payload")
              ELSE PassOn([id |-> authHeader.token.sub,
                           tenantId |-> authHeader.token.tenantId])
         ELSE IF instanceof(error, "JsonWebTokenError")
         THEN Reply(401, "Unauthorized", "Invalid token")
         ELSE IF instanceof(error, "TokenExpiredError")
         THEN Reply(401, "Unauthorized", "Token expired")
         ELSE Reply(500, "Internal Server Error", "Authentication service error")

\* jwtAuth from line 51 on, for a header that is present: the scheme, the
\* verification, the payload check and the catch block
checkHeader(authHeader, t) ==
    IF authHeader.scheme \notin {"Bearer", "Service"}
    THEN Reply(401, "Unauthorized", "Invalid authorization header format")
    ELSE LET error == jwtVerify(authHeader.token, t) IN
         IF error = ""
         THEN IF authHeader.token.sub = "" \/ authHeader.token.tenantId = ""
              THEN Reply(401, "Unauthorized", "Invalid token payload")
              ELSE PassOn([id |-> authHeader.token.sub,
                           tenantId |-> authHeader.token.tenantId])
         ELSE IF instanceof(error, "JsonWebTokenError")
         THEN Reply(401, "Unauthorized", "Invalid token")
         ELSE IF instanceof(error, "TokenExpiredError")
         THEN Reply(401, "Unauthorized", "Token expired")
         ELSE Reply(500, "Internal Server Error", "Authentication service error")

\* (slip: a request without the header is let through as anonymous)
jwtAuth_anonymous(authHeader, t) ==
    IF authHeader.scheme = ""
    THEN PassOn(NoUser)
    ELSE checkHeader(authHeader, t)

\* jwtAuth(req, res, next): either next() with req.user set, or one response
jwtAuth(authHeader, t) ==
    IF authHeader.scheme = ""
    THEN Reply(401, "Unauthorized", "Authorization header is required")
    ELSE checkHeader(authHeader, t)

\* (slip: next() is called as well after jwtAuth has answered)
optionalAuth_alsoNext(authHeader, t) ==
    IF authHeader.scheme # ""
    THEN [jwtAuth(authHeader, t) EXCEPT !.next = TRUE]
    ELSE PassOn(NoUser)

\* optionalAuth: jwtAuth when the header is present (jwtAuth never throws)
optionalAuth(authHeader, t) ==
    IF authHeader.scheme # "" THEN jwtAuth(authHeader, t) ELSE PassOn(NoUser)

\* the role names of the tokens
Roles == {"admin", "issuer", "auditor"}

\* req.user as requireRole sees it: not set, or set by jwtAuth with the roles
\* of the token (decoded.roles || [])
RoleUsers ==
    {NoUser} \cup {[id |-> "u1", tenantId |-> "t1", roles |-> rs] : rs \in SUBSET Roles}

\* the argument of requireRole: one role name or an array of them
RequiredRoles ==
    {[isArray |-> FALSE, value |-> role] : role \in Roles}
    \cup {[isArray |-> TRUE, value |-> rs] : rs \in SUBSET Roles}

\* (slip: every required role is asked for)
requireRole_every(requiredRoles, user) ==
    IF user = NoUser
    THEN Reply(401, "Unauthorized", "Authentication required")
    ELSE LET roles == IF requiredRoles.isArray THEN requiredRoles.value
                      ELSE {requiredRoles.value}
             hasRole == \A role \in roles : role \in user.roles
         IN  IF ~hasRole
             THEN Reply(403, "Forbidden", "Required roles")
             ELSE PassOn(user)

\* requireRole(requiredRoles)(req, res, next) with req.user = user
requireRole(requiredRoles, user) ==
    IF user = NoUser
    THEN Reply(401, "Unauthorized", "Authentication required")
    ELSE LET roles == IF requiredRoles.isArray THEN requiredRoles.value
                      ELSE {requiredRoles.value}
             hasRole == \E role \in roles : role \in user.roles
         IN  IF ~hasRole
             THEN Reply(403, "Forbidden", "Required roles")
             ELSE PassOn(user)

\* ------------------------------------------------------------------------
\* Routes (initializeRoutes) and the rate limiter (initializeMiddleware)
\* ------------------------------------------------------------------------
MandatoryRoutes == {"identities", "credentials", "blockchain", "compliance"}
OptionalRoutes == {"auth"}
ProxyRoutes == MandatoryRoutes \cup OptionalRoutes

\* the proxy route mounted at /v1/<route> that the url falls under, or "none"
routeOf(url) ==
    IF Len(url) >= 2 /\ url[1] = "v1" /\ url[2] \in ProxyRoutes
    THEN url[2]
    ELSE "none"

authMiddleware(route, authHeader, t) ==
    IF route \in OptionalRoutes THEN optionalAuth(authHeader, t)
    ELSE jwtAuth(authHeader, t)

\* app.use('/v1', circuitBreaker): Express calls the middleware for urls under
\* /v1 with the mount path stripped from req.url, so req.path is the rest
mountedPath(url) == Tail(url)

underV1(url) == Len(url) >= 1 /\ url[1] = "v1"

\* one hit of the fixed-window limiter on its counter: INCR, and a fresh
\* window when the key has none
NoWindow == [hits |-> 0, resetTime |-> 0]

hit(w, t) ==
    IF w.hits = 0 \/ t >= w.resetTime
    THEN [hits |-> 1, resetTime |-> t + RateLimitWindowMs]
    ELSE [w EXCEPT !.hits = @ + 1]

\* the counter as the store holds it at time t: an expired key is gone
expire(w, t) == IF w.hits > 0 /\ t >= w.resetTime THEN NoWindow ELSE w

\* (slip: the request that reaches the ceiling is rejected already)
limited_atMax(w) == w.hits >= RateLimitMax

\* the limiter's verdict on the counter after the hit: over the ceiling
limited(w) == w.hits > RateLimitMax

\* the keys the limiter counts by (the client address); the gateway Spec
\* has one client
ClientKeys == {"ip1", "ip2"}
GatewayClient == "ip1"

\* the request headers the client chooses besides Authorization
NoClientHeaders == [xRequestId |-> "", xUserId |-> "", xTenantId |-> ""]
ClientHeaders ==
    { NoClientHeaders,
      [xRequestId |-> "r1", xUserId |-> "x9", xTenantId |-> "x9"] }

\* `req_${Date.now()}_${random}` of requestValidator, and of onProxyReq
GeneratedId == "req_generated"
RegeneratedId == "req_regenerated"

\* requestValidator(req, res, next): req.headers as it leaves them, and the
\* X-Request-ID header it sets on res
requestValidator(headers) ==
    LET requestId == IF headers.xRequestId # "" THEN headers.xRequestId
                     ELSE GeneratedId
    IN  [headers |-> [headers EXCEPT !.xRequestId = requestId],
         echo |-> requestId]

\* the headers of the downstream request: the proxy copies req.headers and
\* onProxyReq(proxyReq, req) sets X-Request-ID and, when req.user is set,
\* X-User-ID and X-Tenant-ID
onProxyReq(headers, user) ==
    LET requestId == IF headers.xRequestId # "" THEN headers.xRequestId
                     ELSE RegeneratedId
    IN  [xRequestId |-> requestId,
         xUserId |-> IF user # NoUser THEN user.id ELSE headers.xUserId,
         xTenantId |-> IF user # NoUser THEN user.tenantId ELSE headers.xTenantId]

\* the fields of the JSON bodies the gateway answers with
Envelope == {"error", "message", "timestamp"}
RateLimitBody == {"error", "message"}

\* ------------------------------------------------------------------------
\* State
\* ------------------------------------------------------------------------
VARIABLES
    now,        \* Date.now(), in ticks
    circuits,   \* the registry: service name -> CircuitState
    limiter,    \* the rate-limit counter of each client key
    inflight,   \* bag of requests handed on and not yet answered
    streak,     \* history: consecutive failures recorded per service, up to StreakCap
    arrivals,   \* history: per client key, its requests counted by window
    boot,       \* the steps of APIGateway.start() taken so far, in order
    call,       \* a call of requireRole or loadConfig: its arguments and result
    last        \* history: what the latest step did

vars == <<now, circuits, limiter, inflight, streak, arrivals, boot, call, last>>

\* what a step that records nothing and answers nothing leaves in `last`
Quiet == [op |-> "tick", url |-> <<>>, auth |-> NoHeader, route |-> "none",
          service |-> NoService, gatePhase |-> "none",
          status |-> 0, error |-> "", message |-> "", forwarded |-> FALSE,
          outcome |-> "none", phase |-> "none",
          client |-> "", headers |-> NoClientHeaders, requestId |-> "",
          echo |-> "", user |-> NoUser, proxyHeaders |-> NoClientHeaders,
          body |-> {}]

\* ------------------------------------------------------------------------
\* utils/config.ts
\* ------------------------------------------------------------------------
\* the longest JWT_SECRET tried
MaxSecretLength == 33

DefaultSecret == "super-secret-jwt-key"

MinSecretLength == 32

\* a string of n characters that is not the built-in secret
RECURSIVE Chars(_)
Chars(n) == IF n = 0 THEN "" ELSE Chars(n - 1) \o "k"

\* an environment variable that is not set
Unset == [set |-> FALSE, value |-> ""]

\* process.env as loadConfig reads it
Environments ==
    [JWT_SECRET : {Unset} \cup {[set |-> TRUE, value |-> v] :
                       v \in {DefaultSecret} \cup {Chars(n) : n \in 0..MaxSecretLength}},
     NODE_ENV : {Unset} \cup {[set |-> TRUE, value |-> v] :
                       v \in {"development", "production", "test"}}]

\* process.env.X || fallback
orDefault(variable, fallback) ==
    IF variable.set /\ variable.value # "" THEN variable.value ELSE fallback

\* (slip: the length of the secret is not looked at)
validateConfig_noLength(config) ==
    LET unsetOrDefault == config.jwt.secret = "" \/ config.jwt.secret = DefaultSecret
    IN  [errors |->
            {"JWT_SECRET must be set in production" :
                 x \in {y \in {1} : unsetOrDefault /\ config.nodeEnv = "production"}},
         warnings |->
            {"Using default JWT_SECRET - change this for production" :
                 x \in {y \in {1} : unsetOrDefault /\ config.nodeEnv # "production"}}]

\* validateConfig(config): the errors and warnings it collects
validateConfig(config) ==
    LET unsetOrDefault == config.jwt.secret = "" \/ config.jwt.secret = DefaultSecret
    IN  [errors |->
            {"JWT_SECRET must be set in production" :
                 x \in {y \in {1} : unsetOrDefault /\ config.nodeEnv = "production"}}
            \cup {"JWT_SECRET must be at least 32 characters long" :
                 x \in {y \in {1} : Len(config.jwt.secret) < MinSecretLength}},
         warnings |->
            {"Using default JWT_SECRET - change this for production" :
                 x \in {y \in {1} : unsetOrDefault /\ config.nodeEnv # "production"}}]

\* loadConfig() under the environment env: the configuration, what
\* validateConfig logged, and whether it threw
loadConfig(env) ==
    LET config == [nodeEnv |-> orDefault(env.NODE_ENV, "development"),
                   jwt |-> [secret |-> orDefault(env.JWT_SECRET, DefaultSecret)]]
        checked == validateConfig(config)
    IN  [config |-> config,
         errors |-> checked.errors,
         warnings |-> checked.warnings,
         threw |-> checked.errors # {}]

\* no call of requireRole or loadConfig is looked at
NoCall == [fn |-> "none"]

\* the requests of one key as the claim counts them: the time the key's
\* current window began, the requests since, and the windows begun so far
NoArrivals == [first |-> 0, n |-> 0, window |-> 0]

arrive(a, t) ==
    IF a.n = 0 \/ t >= a.first + RateLimitWindowMs
    THEN [first |-> t, n |-> 1, window |-> a.window + 1]
    ELSE [a EXCEPT !.n = @ + 1]

PhaseOf(cs, serviceName) ==
    IF serviceName \in DOMAIN cs THEN cs[serviceName].state ELSE "none"

OutcomeOf(statusCode) == IF statusCode >= 500 THEN "failure" ELSE "success"

\* streak after an outcome for serviceName
Streak(st, serviceName, outcome) ==
    IF outcome = "failure"
    THEN [st EXCEPT ![serviceName] = IF @ < StreakCap THEN @ + 1 ELSE @]
    ELSE [st EXCEPT ![serviceName] = 0]

FailuresOf(cs, serviceName) ==
    IF serviceName \in DOMAIN cs THEN cs[serviceName].failures ELSE 0

\* a request handed on: the service whose circuit observes it (NoService when
\* res.send is not wrapped), the phase that admitted it, its proxy route and
\* req.user
Pending(service, admittedIn, route, user) ==
    [service |-> service, admittedIn |-> admittedIn, route |-> route, user |-> user]

\* start() run to the end: the server listens
Started == <<"initializeRedis", "initializeMiddleware", "initializeRoutes",
             "initializeErrorHandling", "listen">>

\* (slip: initializeRedis logs the connection error without rethrowing it)
start_swallow(b, connected) ==
    IF b = <<>>
    THEN IF connected THEN <<"initializeRedis">> ELSE <<"connectFailed">>
    ELSE IF b[Len(b)] \in {"exit", "listen"} THEN b
    ELSE IF Len(b) = 1 THEN Append(b, "initializeMiddleware")
    ELSE IF Len(b) = 2 THEN Append(b, "initializeRoutes")
    ELSE IF Len(b) = 3 THEN Append(b, "initializeErrorHandling")
    ELSE Append(b, "listen")

\* the next step of start() after the steps b: await initializeRedis() (which
\* rethrows a connection error, caught by start() with process.exit(1)), then
\* initializeMiddleware, initializeRoutes, initializeErrorHandling, app.listen
start(b, connected) ==
    IF b = <<>>
    THEN IF connected THEN <<"initializeRedis">> ELSE <<"connectFailed", "exit">>
    ELSE IF b[Len(b)] \in {"exit", "listen"} THEN b
    ELSE IF Len(b) = 1 THEN Append(b, "initializeMiddleware")
    ELSE IF Len(b) = 2 THEN Append(b, "initializeRoutes")
    ELSE IF Len(b) = 3 THEN Append(b, "initializeErrorHandling")
    ELSE Append(b, "listen")

\* the server accepts connections
listening(b) == b # <<>> /\ b[Len(b)] = "listen"

Init ==
    /\ boot = Started
    /\ call = NoCall
    /\ now = 1
    /\ circuits = <<>>
    /\ limiter = [k \in ClientKeys |-> NoWindow]
    /\ inflight = EmptyBag
    /\ streak = [s \in ServiceNames |-> 0]
    /\ arrivals = [k \in ClientKeys |-> NoArrivals]
    /\ last = Quiet

Tick ==
    /\ now < MaxTime
    /\ now' = now + 1
    /\ limiter' = [k \in ClientKeys |-> expire(limiter[k], now + 1)]
    /\ last' = Quiet
    /\ UNCHANGED <<circuits, inflight, streak, arrivals, boot, call>>

\* ------------------------------------------------------------------------
\* SpecBreaker: the middleware on its own
\* ------------------------------------------------------------------------
BreakerPaths == { <<"v1", "identities", "1">>, <<"v1">>, <<"v1", "~">>, <<"health">> }

\* statuses a later handler of the gateway answers with at once (res.status(..).json)
SyncStatuses == {401, 404, 500}
\* what the rest of the chain does when circuitBreaker calls next()
Handlers == {[kind |-> "forward", status |-> 0]}
            \cup {[kind |-> "answer", status |-> c] : c \in SyncStatuses}
\* statuses a handler answers with after its downstream call
AsyncStatuses == {200, 500}

CircuitOpenMessage == "Circuit breaker is OPEN"

\* circuitBreaker(req, res, next) with req.path = path; `handler` is what the
\* rest of the chain does when next() is called: "forward" (answer later) or
\* the status it answers with at once
Invoke(path, handler) ==
    LET g == circuitBreaker(circuits, path, now)
        before == PhaseOf(circuits, g.service)
    IN
    /\ UNCHANGED <<now, limiter, arrivals, boot, call>>
    /\ IF g.rejected
       THEN /\ circuits' = g.circuits
            /\ UNCHANGED <<inflight, streak>>
            /\ last' = [Quiet EXCEPT !.op = "admit", !.service = g.service,
                          !.gatePhase = before, !.status = 503,
                          !.error = "Service Unavailable",
                          !.message = CircuitOpenMessage,
                          !.body = Envelope]
       ELSE IF handler.kind = "forward"
       THEN /\ g.wrapped => BagCardinality(inflight) < MaxInFlight
            /\ circuits' = g.circuits
            /\ inflight' = IF g.wrapped
                           THEN inflight (+) SetToBag({Pending(g.service,
                                    PhaseOf(g.circuits, g.service), "none", NoUser)})
                           ELSE inflight
            /\ UNCHANGED streak
            /\ last' = [Quiet EXCEPT !.op = "admit", !.service = g.service,
                          !.gatePhase = before, !.forwarded = TRUE]
       ELSE /\ g.wrapped => (OutcomeOf(handler.status) = "failure" =>
                                FailuresOf(g.circuits, g.service) < MaxFailures)
            /\ circuits' = IF g.wrapped
                           THEN sendWrapper(g.circuits, g.service, handler.status, now)
                           ELSE g.circuits
            /\ streak' = IF g.wrapped
                         THEN Streak(streak, g.service, OutcomeOf(handler.status))
                         ELSE streak
            /\ UNCHANGED inflight
            /\ last' = [Quiet EXCEPT !.op = "admit", !.service = g.service,
                          !.gatePhase = before, !.status = handler.status,
                          !.outcome = IF g.wrapped THEN OutcomeOf(handler.status) ELSE "none",
                          !.phase = IF g.wrapped THEN PhaseOf(g.circuits, g.service)
                                    ELSE "none"]

\* the handler of an in-flight request answers: res.status(statusCode).send(..)
Complete(r, statusCode) ==
    /\ BagIn(r, inflight)
    /\ r.service # NoService =>
          (statusCode >= 500 => FailuresOf(circuits, r.service) < MaxFailures)
    /\ inflight' = inflight (-) SetToBag({r})
    /\ circuits' = IF r.service # NoService
                   THEN sendWrapper(circuits, r.service, statusCode, now)
                   ELSE circuits
    /\ streak' = IF r.service # NoService
                 THEN Streak(streak, r.service, OutcomeOf(statusCode))
                 ELSE streak
    /\ UNCHANGED <<now, limiter, arrivals, boot, call>>
    /\ last' = [Quiet EXCEPT !.op = "complete", !.service = r.service,
                  !.status = statusCode,
                  !.outcome = IF r.service # NoService THEN OutcomeOf(statusCode)
                              ELSE "none",
                  !.phase = PhaseOf(circuits, r.service)]

NextBreaker ==
    \/ Tick
    \/ \E path \in BreakerPaths, handler \in Handlers :
          Invoke(path, handler)
    \/ \E r \in BagToSet(inflight), statusCode \in AsyncStatuses :
          Complete(r, statusCode)

SpecBreaker == Init /\ [][NextBreaker]_vars

\* SpecBreaker with time passing and requests to the service that has a
\* circuit arriving again and again
ServicePath == <<"v1", "identities", "1">>

Arrival == \E handler \in Handlers : Invoke(ServicePath, handler)

SpecBreakerLive ==
    /\ Init
    /\ [][NextBreaker]_vars
    /\ WF_vars(Tick)
    /\ WF_vars(Arrival)


\* ------------------------------------------------------------------------
\* Spec: the gateway as APIGateway.start() wires it
\* ------------------------------------------------------------------------
GatewayUrls == { <<"v1", "identities", "1">>,
                 <<"v1", "auth", "login">>, <<"v1", "v1", "unknown">>,
                 <<"v1", "unknown", "1">>, <<"health">> }

\* statuses a downstream service answers with
DownstreamStatuses == {200, 404, 500}

NotGated(cs) ==
    [circuits |-> cs, service |-> NoService, rejected |-> FALSE, wrapped |-> FALSE]

\* res.send(..) of a response with this status: the wrapper, when installed
sent(g, statusCode, t) ==
    IF g.wrapped THEN sendWrapper(g.circuits, g.service, statusCode, t) ELSE g.circuits

\* the route handlers, in the order they are registered: what answers the
\* request, or the proxy it is handed to
handle(url, authHeader, t) ==
    IF Len(url) >= 1 /\ url[1] = "health"
    THEN Reply(200, "", "")
    ELSE IF routeOf(url) # "none"
    THEN authMiddleware(routeOf(url), authHeader, t)
    ELSE IF url = <<>>
    THEN Reply(200, "", "")
    ELSE Reply(404, "Not Found", "Route not found")

\* the middleware chain after the rate limiter, run to the point where the
\* request is answered or handed to the proxy
\* (slip: the authentication stage answers and calls next() all the same)
dispatch_answerAndForward(cs, url, authHeader, t) ==
    LET g == IF underV1(url) THEN circuitBreaker(cs, mountedPath(url), t)
             ELSE NotGated(cs)
        h == handle(url, authHeader, t)
        seen == [Quiet EXCEPT !.op = "request", !.url = url, !.auth = authHeader,
                   !.route = routeOf(url), !.service = g.service,
                   !.gatePhase = PhaseOf(cs, g.service)]
    IN  IF g.rejected
        THEN [circuits |-> g.circuits, user |-> NoUser,
              last |-> [seen EXCEPT !.status = 503, !.error = "Service Unavailable",
                          !.message = CircuitOpenMessage, !.body = Envelope]]
        ELSE IF h.next
        THEN [circuits |-> g.circuits, user |-> h.user,
              last |-> [seen EXCEPT !.forwarded = TRUE, !.user = h.user,
                          !.status = h.status, !.error = h.error,
                          !.message = h.message,
                          !.body = IF h.status >= 400 THEN Envelope ELSE {}]]
        ELSE [circuits |-> sent(g, h.status, t), user |-> NoUser,
              last |-> [seen EXCEPT !.status = h.status, !.error = h.error,
                          !.message = h.message, !.forwarded = routeOf(url) # "none",
                          !.body = IF h.status >= 400 THEN Envelope ELSE {},
                          !.outcome = IF g.wrapped THEN OutcomeOf(h.status) ELSE "none",
                          !.phase = IF g.wrapped THEN PhaseOf(g.circuits, g.service)
                                    ELSE "none"]]

\* the chain after requestValidator: circuitBreaker (under /v1), then the routes
dispatch(cs, url, authHeader, t) ==
    LET g == IF underV1(url) THEN circuitBreaker(cs, mountedPath(url), t)
             ELSE NotGated(cs)
        h == handle(url, authHeader, t)
        seen == [Quiet EXCEPT !.op = "request", !.url = url, !.auth = authHeader,
                   !.route = routeOf(url), !.service = g.service,
                   !.gatePhase = PhaseOf(cs, g.service)]
    IN  IF g.rejected
        THEN [circuits |-> g.circuits, user |-> NoUser,
              last |-> [seen EXCEPT !.status = 503, !.error = "Service Unavailable",
                          !.message = CircuitOpenMessage, !.body = Envelope]]
        ELSE IF h.next
        THEN [circuits |-> g.circuits, user |-> h.user,
              last |-> [seen EXCEPT !.forwarded = TRUE, !.user = h.user,
                          !.status = h.status, !.error = h.error,
                          !.message = h.message,
                          !.body = IF h.status >= 400 THEN Envelope ELSE {}]]
        ELSE [circuits |-> sent(g, h.status, t), user |-> NoUser,
              last |-> [seen EXCEPT !.status = h.status, !.error = h.error,
                          !.message = h.message,
                          !.body = IF h.status >= 400 THEN Envelope ELSE {},
                          !.outcome = IF g.wrapped THEN OutcomeOf(h.status) ELSE "none",
                          !.phase = IF g.wrapped THEN PhaseOf(g.circuits, g.service)
                                    ELSE "none"]]

\* rateLimiter answering a request over the ceiling: status 429 with the
\* configured message
TooManyRequests(url, authHeader, headers) ==
    [Quiet EXCEPT !.op = "request", !.url = url, !.auth = authHeader,
       !.client = GatewayClient, !.headers = headers,
       !.route = routeOf(url), !.status = 429,
       !.error = "Too many requests", !.message = "Rate limit exceeded",
       !.body = RateLimitBody]

\* requestValidator and the rest of the chain, for a request the limiter let by
validated(cs, url, authHeader, headers, t) ==
    LET v == requestValidator(headers)
        d == dispatch(cs, url, authHeader, t)
    IN  [circuits |-> d.circuits, user |-> d.user,
         last |-> [d.last EXCEPT !.client = GatewayClient, !.headers = headers,
                     !.requestId = v.headers.xRequestId, !.echo = v.echo,
                     !.proxyHeaders = IF d.last.forwarded
                                      THEN onProxyReq(v.headers, d.user)
                                      ELSE NoClientHeaders]]

\* (slip: circuitBreaker registered ahead of rateLimiter)
chain_breakerFirst(cs, w, url, authHeader, headers, t) ==
    LET g == IF underV1(url) THEN circuitBreaker(cs, mountedPath(url), t)
             ELSE NotGated(cs)
    IN  IF limited(w)
        THEN [circuits |-> g.circuits, user |-> NoUser,
              last |-> TooManyRequests(url, authHeader, headers)]
        ELSE validated(cs, url, authHeader, headers, t)

\* the middleware in the order app.use registers it: rateLimiter (w is its
\* counter after the hit), requestValidator, circuitBreaker, the routes
chain(cs, w, url, authHeader, headers, t) ==
    IF limited(w)
    THEN [circuits |-> cs, user |-> NoUser,
          last |-> TooManyRequests(url, authHeader, headers)]
    ELSE validated(cs, url, authHeader, headers, t)

\* a request arrives: rateLimiter, then requestValidator, circuitBreaker (under
\* /v1) and the routes
Request(url, authHeader, headers) ==
    LET w == hit(limiter[GatewayClient], now)
        d == chain(circuits, w, url, authHeader, headers, now)
    IN
    /\ listening(boot)
    /\ limiter[GatewayClient].hits <= RateLimitMax
    /\ limiter' = [limiter EXCEPT ![GatewayClient] = w]
    /\ now' = now
    /\ d.last.forwarded => BagCardinality(inflight) < MaxInFlight
    /\ d.last.outcome = "failure" =>
           FailuresOf(circuits, d.last.service) < MaxFailures
    /\ circuits' = d.circuits
    /\ inflight' = IF d.last.forwarded
                   THEN inflight (+) SetToBag({Pending(d.last.service,
                            PhaseOf(d.circuits, d.last.service),
                            d.last.route, d.user)})
                   ELSE inflight
    /\ streak' = IF d.last.outcome = "none" THEN streak
                 ELSE Streak(streak, d.last.service, d.last.outcome)
    /\ last' = d.last
    /\ UNCHANGED <<arrivals, boot, call>>

\* the downstream service answers: the proxy copies status and headers and
\* pipes the body into res (res.send is not called)
ProxyResponse(r, statusCode) ==
    /\ BagIn(r, inflight)
    /\ inflight' = inflight (-) SetToBag({r})
    /\ last' = [Quiet EXCEPT !.op = "response", !.route = r.route,
                  !.service = r.service, !.status = statusCode, !.forwarded = TRUE,
                  !.user = r.user]
    /\ UNCHANGED <<now, circuits, limiter, streak, arrivals, boot, call>>

\* the downstream call fails (connection refused, timeout): onError answers
\* res.status(503).json(..)
ProxyError(r) ==
    LET g == [circuits |-> circuits, service |-> r.service,
              rejected |-> FALSE, wrapped |-> r.service # NoService]
    IN
    /\ BagIn(r, inflight)
    /\ r.service # NoService => FailuresOf(circuits, r.service) < MaxFailures
    /\ inflight' = inflight (-) SetToBag({r})
    /\ circuits' = sent(g, 503, now)
    /\ streak' = IF g.wrapped THEN Streak(streak, r.service, "failure") ELSE streak
    /\ last' = [Quiet EXCEPT !.op = "error", !.route = r.route,
                  !.service = r.service, !.status = 503,
                  !.error = "Service Unavailable",
                  !.message = "Downstream service is not available",
                  !.forwarded = TRUE,
                  !.outcome = IF g.wrapped THEN "failure" ELSE "none",
                  !.phase = PhaseOf(circuits, r.service),
                  !.user = r.user, !.body = Envelope]
    /\ UNCHANGED <<now, limiter, arrivals, boot, call>>

Next ==
    \/ Tick
    \/ \E url \in GatewayUrls, authHeader \in AuthHeaders, headers \in ClientHeaders :
          Request(url, authHeader, headers)
    \/ \E r \in BagToSet(inflight), statusCode \in DownstreamStatuses :
          ProxyResponse(r, statusCode)
    \/ \E r \in BagToSet(inflight) : ProxyError(r)

Spec == Init /\ [][Next]_vars

\* ------------------------------------------------------------------------
\* SpecPair: the middleware on its own, called for two services
\* ------------------------------------------------------------------------
PairPaths == { <<"v1", "identities", "1">>, <<"v1", "credentials", "1">> }

\* what the rest of the chain does: forward, or answer at once with a failure
PairHandlers == {h \in Handlers : h.kind = "forward" \/ h.status = 500}

\* requests in flight at a time under SpecPair
MaxPairInFlight == 1

NextPair ==
    \/ Tick
    \/ \E path \in PairPaths, handler \in PairHandlers :
          /\ handler.kind = "forward" => BagCardinality(inflight) < MaxPairInFlight
          /\ Invoke(path, handler)
    \/ \E r \in BagToSet(inflight), statusCode \in AsyncStatuses :
          Complete(r, statusCode)

SpecPair == Init /\ [][NextPair]_vars

\* ------------------------------------------------------------------------
\* SpecStart: the gateway from `new APIGateway()` on
\* ------------------------------------------------------------------------
InitStart ==
    /\ boot = <<>>
    /\ call = NoCall
    /\ now = 1
    /\ circuits = <<>>
    /\ limiter = [k \in ClientKeys |-> NoWindow]
    /\ inflight = EmptyBag
    /\ streak = [s \in ServiceNames |-> 0]
    /\ arrivals = [k \in ClientKeys |-> NoArrivals]
    /\ last = Quiet

\* one step of gateway.start(); `connected` is whether redisClient.connect()
\* resolves
Start(connected) ==
    /\ boot' = start(boot, connected)
    /\ boot' # boot
    /\ last' = [Quiet EXCEPT !.op = "start"]
    /\ UNCHANGED <<now, circuits, limiter, inflight, streak, arrivals, call>>

NextStart ==
    \/ \E connected \in BOOLEAN : Start(connected)
    \/ Next

SpecStart == InitStart /\ [][NextStart]_vars

\* ------------------------------------------------------------------------
\* SpecRole: requireRole on its own
\* ------------------------------------------------------------------------
InitRole ==
    /\ call \in {[fn |-> "requireRole", requiredRoles |-> r, user |-> u,
                   done |-> FALSE, result |-> PassOn(NoUser)] :
                      r \in RequiredRoles, u \in RoleUsers}
    /\ boot = Started
    /\ now = 1
    /\ circuits = <<>>
    /\ limiter = [k \in ClientKeys |-> NoWindow]
    /\ inflight = EmptyBag
    /\ streak = [s \in ServiceNames |-> 0]
    /\ arrivals = [k \in ClientKeys |-> NoArrivals]
    /\ last = Quiet

\* the middleware requireRole(requiredRoles) runs for the request
RequireRole ==
    /\ call.fn = "requireRole"
    /\ ~call.done
    /\ call' = [call EXCEPT !.done = TRUE,
                             !.result = requireRole(call.requiredRoles, call.user)]
    /\ UNCHANGED <<now, circuits, limiter, inflight, streak, arrivals, boot, last>>

NextRole == RequireRole

SpecRole == InitRole /\ [][NextRole]_vars

\* ------------------------------------------------------------------------
\* SpecConfig: the module utils/config.ts is loaded under some environment
\* ------------------------------------------------------------------------
InitConfig ==
    /\ call \in {[fn |-> "loadConfig", env |-> e, done |-> FALSE,
                   result |-> [config |-> [nodeEnv |-> "", jwt |-> [secret |-> ""]],
                               errors |-> {}, warnings |-> {}, threw |-> FALSE]] :
                      e \in Environments}
    /\ boot = <<>>
    /\ now = 1
    /\ circuits = <<>>
    /\ limiter = [k \in ClientKeys |-> NoWindow]
    /\ inflight = EmptyBag
    /\ streak = [s \in ServiceNames |-> 0]
    /\ arrivals = [k \in ClientKeys |-> NoArrivals]
    /\ last = Quiet

\* export const config = loadConfig()
LoadConfig ==
    /\ call.fn = "loadConfig"
    /\ ~call.done
    /\ call' = [call EXCEPT !.done = TRUE, !.result = loadConfig(call.env)]
    /\ UNCHANGED <<now, circuits, limiter, inflight, streak, arrivals, boot, last>>

NextConfig == LoadConfig

SpecConfig == InitConfig /\ [][NextConfig]_vars

\* ------------------------------------------------------------------------
\* SpecLimiter: the rate limiter on its own, with two clients
\* ------------------------------------------------------------------------
\* rateLimiter(req, res, next) for a request of the client `key`
Limit(key) ==
    LET w == hit(limiter[key], now)
    IN
    /\ limiter[key].hits <= RateLimitMax
    /\ limiter' = [limiter EXCEPT ![key] = w]
    /\ arrivals' = [arrivals EXCEPT ![key] = arrive(@, now)]
    /\ last' = IF limited(w)
               THEN [Quiet EXCEPT !.op = "limit", !.client = key, !.status = 429,
                       !.error = "Too many requests",
                       !.message = "Rate limit exceeded", !.body = RateLimitBody]
               ELSE [Quiet EXCEPT !.op = "limit", !.client = key]
    /\ UNCHANGED <<now, circuits, inflight, streak, boot, call>>

NextLimiter ==
    \/ Tick
    \/ \E key \in ClientKeys : Limit(key)

SpecLimiter == Init /\ [][NextLimiter]_vars

\* ------------------------------------------------------------------------
\* Properties of the circuit breaker (checked under SpecBreaker)
\* ------------------------------------------------------------------------
GatePre(s) ==
    /\ last'.op = "admit"
    /\ last'.service = s
    /\ s \in DOMAIN circuits
    /\ circuits[s].state = "OPEN"

Answered503 ==
    /\ last'.status = 503
    /\ last'.message = CircuitOpenMessage
    /\ ~last'.forwarded
    /\ inflight' = inflight

\* C1 (as stated): while the circuit of S is OPEN and the time since its last
\* recorded failure does not exceed the reset timeout (elapsed <= timeout),
\* every request to S is answered 503 'Circuit breaker is OPEN' and is not
\* forwarded.
C1_OpenRejectsUpToTimeout ==
    [][\A s \in ServiceNames :
          (GatePre(s) /\ now - circuits[s].lastFailureTime <= ResetTimeoutMs)
              => Answered503]_vars

\* C1 (amended): while the circuit of S is OPEN and the time since its last
\* recorded failure is less than the reset timeout (elapsed < timeout), every
\* request to S is answered 503 'Circuit breaker is OPEN', is not forwarded and
\* leaves the circuit OPEN.
C1_OpenRejectsBeforeTimeout ==
    [][\A s \in ServiceNames :
          (GatePre(s) /\ now - circuits[s].lastFailureTime < ResetTimeoutMs)
              => (Answered503 /\ circuits'[s] = circuits[s])]_vars

C1_Witness ==
    /\ last.op = "admit"
    /\ last.gatePhase = "OPEN"
    /\ last.status = 503
    /\ last.service \in DOMAIN circuits
    /\ circuits[last.service].state = "OPEN"
    /\ now - circuits[last.service].lastFailureTime = ResetTimeoutMs - 1

\* C2: after 10 consecutive recorded failures for S, with no success recorded
\* in between, the circuit of S is OPEN for as long as the reset timeout has
\* not elapsed since the last of them, and an admission check made in that
\* time is rejected with 503.
C2_TenFailuresOpen ==
    \A s \in DOMAIN circuits :
        (streak[s] >= StreakCap /\ now - circuits[s].lastFailureTime < ResetTimeoutMs)
            => /\ circuits[s].state = "OPEN"
               /\ (last.op = "admit" /\ last.service = s)
                      => (last.status = 503 /\ ~last.forwarded)

C2_Witness ==
    /\ last.op = "admit"
    /\ last.service \in DOMAIN circuits
    /\ streak[last.service] >= StreakCap
    /\ now - circuits[last.service].lastFailureTime < ResetTimeoutMs
    /\ last.status = 503

\* C3: between the admission that moves the circuit of S from OPEN to HALF_OPEN
\* and the recording of that request's outcome no other request to S is
\* admitted: at most one request admitted by a HALF_OPEN circuit is in flight.
C3_ProbeExclusive ==
    \A r \in BagToSet(inflight) :
        r.admittedIn = "HALF_OPEN" => CopiesIn(r, inflight) <= 1

\* C4: a failure recorded for S while its circuit is HALF_OPEN leaves the
\* circuit OPEN with lastFailureTime set to the time of the failure.
C4_HalfOpenFailureReopens ==
    (last.outcome = "failure" /\ last.phase = "HALF_OPEN")
        => /\ circuits[last.service].state = "OPEN"
           /\ circuits[last.service].lastFailureTime = now

\* C5: a success recorded for S while its circuit is HALF_OPEN leaves the
\* circuit CLOSED with failure count 0.
C5_HalfOpenSuccessCloses ==
    (last.outcome = "success" /\ last.phase = "HALF_OPEN")
        => /\ circuits[last.service].state = "CLOSED"
           /\ circuits[last.service].failures = 0

C5_Witness ==
    /\ last.op = "complete"
    /\ last.outcome = "success"
    /\ last.phase = "HALF_OPEN"
    /\ streak[last.service] = 0

\* C7: a request the gateway itself answers with 401, 403 or 404 after the
\* admission check records no outcome: every circuit is as the admission check
\* left it.
C7_GatewayRejectionRecordsNothing ==
    [][(last'.op = "admit" /\ last'.status \in {401, 403, 404})
          => circuits' = IF last'.service = NoService THEN circuits
                          ELSE admit(circuits, last'.service, now).circuits]_vars


\* ------------------------------------------------------------------------
\* Properties of the gateway (checked under Spec)
\* ------------------------------------------------------------------------
NoCredentials ==
    /\ last.op = "request"
    /\ last.route \in MandatoryRoutes
    /\ last.auth.scheme = ""

Is401HeaderRequired ==
    /\ last.status = 401
    /\ last.error = "Unauthorized"
    /\ last.message = "Authorization header is required"

C8_ForwardedOutcomeReported ==
    (last.op \in {"response", "error"} /\ last.forwarded)
        => /\ last.service = last.route
           /\ last.outcome = OutcomeOf(last.status)

\* C9: for every request under /v1/<service>/... that reaches the circuit
\* breaker stage, the stage resolves <service> as the service name (and so
\* gates the request by that service's circuit).
C9_ServiceResolved ==
    (/\ last.op = "request"
     /\ last.status # 429
     /\ Len(last.url) >= 2
     /\ last.url[1] = "v1"
     /\ last.url[2] \in WordSegments)
        => last.service = last.url[2]

\* C10: a token whose exp claim is in the past (here even one whose signature
\* verifies) is answered 401 with message 'Token expired', not 'Invalid token'.
C10_ExpiredTokenMessage ==
    (/\ last.op = "request"
     /\ last.status # 429
     /\ last.route \in MandatoryRoutes
     /\ last.auth.scheme \in {"Bearer", "Service"}
     /\ last.auth.token.sig = "ok"
     /\ now >= last.auth.token.exp)
        => /\ last.status = 401
           /\ last.message = "Token expired"

\* C11: on an optional-auth route a request whose Authorization header is
\* present but fails validation (unsupported scheme, bad signature, expired,
\* missing subject or tenant id) is not rejected: it is handed to the proxy
\* without an identity, as a request without the header is.
HeaderFailsValidation(h, t) ==
    /\ h.scheme # ""
    /\ \/ h.scheme \notin {"Bearer", "Service"}
       \/ h.token.sig # "ok"
       \/ t >= h.token.exp
       \/ h.token.sub = ""
       \/ h.token.tenantId = ""

C11_OptionalSwallowsFailure ==
    (/\ last.op = "request"
     /\ last.status # 429
     /\ last.route \in OptionalRoutes
     /\ HeaderFailsValidation(last.auth, now))
        => /\ last.forwarded
           /\ last.status = 0

\* C12: every request, admitted or rejected at any stage (a rate-limit
\* rejection included), is assigned one request identifier, the inbound
\* X-Request-ID when there is one and a generated one otherwise; the response
\* header X-Request-ID carries it, and so does the forwarded downstream request.
C12_RequestIdAssigned ==
    last.op = "request" =>
        /\ last.requestId # ""
        /\ last.headers.xRequestId # "" => last.requestId = last.headers.xRequestId
        /\ last.echo = last.requestId
        /\ last.forwarded => last.proxyHeaders.xRequestId = last.requestId

\* ------------------------------------------------------------------------
\* Properties of the rate limiter (checked under SpecLimiter)
\* ------------------------------------------------------------------------
\* C13: for every client key and ceiling RateLimitMax per fixed window, the
\* first RateLimitMax requests of the key inside one window are let by, the
\* next one is answered 429, and the first request of the key after the
\* window has expired is let by again.
C13_CeilingPerWindow ==
    last.op = "limit" =>
        LET a == arrivals[last.client]
        IN  /\ a.n <= RateLimitMax => last.status = 0
            /\ a.n > RateLimitMax => last.status = 429
            /\ a.n = 1 => last.status = 0

\* the (RateLimitMax + 1)-th request of a key's second window is rejected
\* while the other key is still let by
C13_Witness ==
    /\ last.op = "limit"
    /\ last.status = 429
    /\ arrivals[last.client].n = RateLimitMax + 1
    /\ arrivals[last.client].window = 2
    /\ \E k \in ClientKeys : k # last.client /\ limiter[k].hits = 1

\* ------------------------------------------------------------------------
\* Properties of the gateway pipeline (checked under Spec)
\* ------------------------------------------------------------------------
\* C14: a request the rate limiter rejects reaches neither the circuit
\* breaker nor authentication nor the proxy: the step changes no circuit
\* (none is created, none leaves OPEN), records no outcome and hands nothing
\* to a downstream service.
C14_LimitedStopsAtLimiter ==
    [][(last'.op = "request" /\ last'.status = 429) =>
          /\ circuits' = circuits
          /\ inflight' = inflight
          /\ streak' = streak
          /\ ~last'.forwarded
          /\ last'.service = NoService
          /\ last'.outcome = "none"]_vars

\* a rejected request whose path the breaker would have created a circuit for
C14_Witness ==
    /\ last.op = "request"
    /\ last.status = 429
    /\ last.url = <<"v1", "v1", "unknown">>
    /\ "unknown" \notin DOMAIN circuits

C16_IdentityHeadersFromClaimOnly ==
    (last.op = "request" /\ last.forwarded) =>
        IF last.user # NoUser
        THEN /\ last.proxyHeaders.xUserId = last.user.id
             /\ last.proxyHeaders.xTenantId = last.user.tenantId
        ELSE /\ last.proxyHeaders.xUserId = ""
             /\ last.proxyHeaders.xTenantId = ""

\* ------------------------------------------------------------------------
\* Further properties of the circuit breaker (checked under SpecBreaker)
\* ------------------------------------------------------------------------
\* C17: in every reachable state the failure count of every circuit is a
\* non-negative integer, whatever successes and failures have been recorded
\* and in whatever phase.
C17_FailuresNonNegative ==
    \A s \in DOMAIN circuits : circuits[s].failures \in Nat

\* a success has just been recorded for a CLOSED circuit whose count was 0
C17_Witness ==
    /\ last.outcome = "success"
    /\ last.gatePhase = "CLOSED"
    /\ last.service \in DOMAIN circuits
    /\ circuits[last.service].failures = 0
    /\ circuits[last.service].lastFailureTime = 0

\* C18: an admission check made while the service's circuit is CLOSED admits
\* the request (it is not answered 503 by the gate), whatever the failure
\* count is, and the gate leaves the phase CLOSED.
C18_ClosedAdmits ==
    (/\ last.op = "admit"
     /\ last.service # NoService
     /\ last.gatePhase = "CLOSED")
        => /\ last.status # 503
           /\ last.forwarded => circuits[last.service].state = "CLOSED"
           /\ last.outcome # "none" => last.phase = "CLOSED"
           /\ last.forwarded \/ last.outcome # "none"

\* a CLOSED circuit one failure short of the threshold admits a request
C18_Witness ==
    /\ last.op = "admit"
    /\ last.gatePhase = "CLOSED"
    /\ last.forwarded
    /\ last.service \in DOMAIN circuits
    /\ circuits[last.service].state = "CLOSED"
    /\ ThresholdReached(circuits[last.service].failures + 1)

\* ------------------------------------------------------------------------
\* Further properties of the gateway pipeline (checked under Spec)
\* ------------------------------------------------------------------------
\* C19: a request that reaches the authentication stage of a mandatory-auth
\* route is admitted (identity attached, handed to the proxy) if and only if
\* its Authorization header uses the 'Bearer ' or 'Service ' scheme, the token
\* verifies against the shared secret and is not expired, and the token has
\* both a subject id and a tenant id; in every other case it is answered 401
\* and not forwarded.
HeaderIsValid(h, t) ==
    /\ h.scheme \in {"Bearer", "Service"}
    /\ h.token.sig = "ok"
    /\ t < h.token.exp
    /\ h.token.sub # ""
    /\ h.token.tenantId # ""

RejectionStatuses == {401, 403, 404, 429, 503}

C20_RejectionEnvelope ==
    (/\ last.op \in {"request", "error"}
     /\ last.status \in RejectionStatuses)
        => {"error", "message", "timestamp"} \subseteq last.body

\* ------------------------------------------------------------------------
\* Phase changes of a circuit (checked under SpecBreaker)
\* ------------------------------------------------------------------------
\* C21: a circuit that is not CLOSED becomes CLOSED only by the success of a
\* request that a HALF_OPEN circuit admitted (its probe): neither the outcome
\* of a request admitted before the circuit opened nor a response the gateway
\* writes itself closes it.
C21_OnlyProbeCloses ==
    [][\A s \in DOMAIN circuits :
          (circuits[s].state # "CLOSED" /\ circuits'[s].state = "CLOSED")
              => \E r \in BagToSet(inflight) :
                    /\ r.service = s
                    /\ r.admittedIn = "HALF_OPEN"
                    /\ inflight' = inflight (-) SetToBag({r})]_vars

\* C22: a CLOSED circuit opens exactly at the recorded failure after which
\* failures / 10 >= errorThresholdPercentage / 100, and at no earlier one: with
\* the threshold at 50 it opens on the failure that brings the count to 5 and
\* is CLOSED only with a count below 5.
C22_OpensAtThreshold ==
    /\ \A s \in DOMAIN circuits :
          circuits[s].state = "CLOSED" => circuits[s].failures < 5
    /\ (last.outcome = "failure" /\ last.phase = "CLOSED") =>
          /\ circuits[last.service].state \in {"CLOSED", "OPEN"}
          /\ circuits[last.service].state = "OPEN"
                <=> circuits[last.service].failures = 5

\* the fifth failure of a CLOSED circuit has just opened it
C22_Witness ==
    /\ last.outcome = "failure"
    /\ last.phase = "CLOSED"
    /\ circuits[last.service].state = "OPEN"
    /\ circuits[last.service].failures = 5
    /\ circuits[last.service].lastFailureTime = now

\* C23: a success recorded while the circuit is CLOSED sets the failure count
\* to max(0, count - 1) and changes neither the phase nor lastFailureTime.
C23_ClosedSuccessDecays ==
    [][(last'.outcome = "success" /\ last'.phase = "CLOSED") =>
          LET s == last'.service
              before == IF s \in DOMAIN circuits THEN circuits[s]
                        ELSE [failures |-> 0, lastFailureTime |-> 0, state |-> "CLOSED"]
              after == circuits'[s]
          IN  /\ after.failures = IF before.failures >= 1 THEN before.failures - 1 ELSE 0
              /\ after.state = "CLOSED"
              /\ after.lastFailureTime = before.lastFailureTime]_vars

\* a success has just taken a CLOSED circuit's count from 2 to 1
C23_Witness ==
    /\ last.outcome = "success"
    /\ last.phase = "CLOSED"
    /\ circuits[last.service].state = "CLOSED"
    /\ circuits[last.service].failures = 1
    /\ circuits[last.service].lastFailureTime > 0

\* C24 (as stated): in every reachable state a circuit whose phase is OPEN has
\* lastFailureTime set (non-zero) and recent: the time since lastFailureTime is
\* less than the reset timeout.
C24_OpenIsRecent ==
    \A s \in DOMAIN circuits :
        circuits[s].state = "OPEN" =>
            /\ circuits[s].lastFailureTime # 0
            /\ now - circuits[s].lastFailureTime < ResetTimeoutMs

\* C24 (amended): in every reachable state a circuit whose phase is OPEN has
\* lastFailureTime set (non-zero), equal to the time of the latest failure
\* recorded for it and not later than now; it is less than the reset timeout
\* old whenever the circuit has just rejected a request.
C24_OpenIsStamped ==
    \A s \in DOMAIN circuits :
        circuits[s].state = "OPEN" =>
            /\ circuits[s].lastFailureTime # 0
            /\ circuits[s].lastFailureTime <= now
            /\ (last.outcome = "failure" /\ last.service = s)
                  => circuits[s].lastFailureTime = now
            /\ (last.op = "admit" /\ last.service = s /\ last.status = 503
                  /\ last.message = CircuitOpenMessage)
                  => now - circuits[s].lastFailureTime < ResetTimeoutMs

\* an OPEN circuit that no request has reached since the timeout elapsed
C24_Witness ==
    \E s \in DOMAIN circuits :
        /\ circuits[s].state = "OPEN"
        /\ now - circuits[s].lastFailureTime >= ResetTimeoutMs
        /\ last.op = "tick"

\* ------------------------------------------------------------------------
\* The registry of the gateway (checked under Spec)
\* ------------------------------------------------------------------------
\* C25: the registry only ever holds entries for the routed services: after
\* any sequence of requests, requests to unknown paths under /v1 included,
\* the keys of the circuit map are a subset of the proxy routes.
C25_RegistryKeysRouted ==
    DOMAIN circuits \subseteq ProxyRoutes

\* ------------------------------------------------------------------------
\* Startup (checked under SpecStart)
\* ------------------------------------------------------------------------
\* C27: the gateway serves requests only after the connection to the counter
\* store has succeeded and middleware, routes and error handlers have been
\* installed, in that order; when the connection fails at startup the process
\* exits and no request is ever served.
C27_ServesOnlyOnceStarted ==
    /\ listening(boot) => boot = Started
    /\ (last.op \in {"request", "response", "error"} \/ inflight # EmptyBag
          \/ circuits # <<>> \/ limiter[GatewayClient].hits > 0)
          => boot = Started
    /\ (boot # <<>> /\ boot[1] = "connectFailed") => boot = <<"connectFailed", "exit">>

\* a request is served by the started gateway
C27_Witness ==
    /\ boot = Started
    /\ last.op = "request"
    /\ last.forwarded

\* ------------------------------------------------------------------------
\* Further phase changes of a circuit (checked under SpecBreaker)
\* ------------------------------------------------------------------------
\* the phase of s between the admission check of a step and the outcome the
\* same step records (a later handler answering at once), else the phase the
\* step ends in
PhaseAfterGate(s) ==
    IF last'.op = "admit" /\ last'.service = s /\ last'.outcome # "none"
    THEN last'.phase
    ELSE IF last'.op = "admit" /\ last'.service = s
    THEN circuits'[s].state
    ELSE PhaseOf(circuits, s)

\* C28: the only phase changes of a circuit are CLOSED -> OPEN and
\* HALF_OPEN -> OPEN, each by a recorded failure, OPEN -> HALF_OPEN by an
\* admission check and never by a recorded outcome, and HALF_OPEN -> CLOSED by
\* a recorded success, which leaves the failure count at 0; no circuit goes
\* CLOSED -> HALF_OPEN or OPEN -> CLOSED.
C28_PhaseChanges ==
    [][\A s \in DOMAIN circuits' :
          LET pre == PhaseOf(circuits, s)
              mid == PhaseAfterGate(s)
              post == circuits'[s].state
              mine == last'.service = s
          IN  /\ \/ mid = pre
                 \/ pre = "none" /\ mid = "CLOSED" /\ mine /\ last'.op = "admit"
                 \/ pre = "OPEN" /\ mid = "HALF_OPEN" /\ mine /\ last'.op = "admit"
              /\ \/ post = mid
                 \/ /\ mid \in {"CLOSED", "HALF_OPEN"} /\ post = "OPEN"
                    /\ mine /\ last'.outcome = "failure"
                 \/ /\ mid = "HALF_OPEN" /\ post = "CLOSED"
                    /\ mine /\ last'.outcome = "success"
                    /\ circuits'[s].failures = 0]_vars

\* a failure recorded for a HALF_OPEN circuit has just re-opened it
C28_Witness ==
    /\ last.outcome = "failure"
    /\ last.phase = "HALF_OPEN"
    /\ circuits[last.service].state = "OPEN"

\* C29: an admission check that rejects a request because the circuit is OPEN
\* leaves the registry as it was (failure count, lastFailureTime and phase of
\* the circuit included) and installs no observer for the request: nothing is
\* in flight for it and no outcome is recorded, so rejections never postpone
\* the time from which the circuit may move to HALF_OPEN.
C29_RejectionChangesNothing ==
    [][(/\ last'.op = "admit"
        /\ last'.status = 503
        /\ last'.message = CircuitOpenMessage)
          => /\ circuits' = circuits
             /\ inflight' = inflight
             /\ streak' = streak
             /\ last'.outcome = "none"
             /\ ~last'.forwarded]_vars

\* a request is rejected a tick after the failure that opened the circuit,
\* with an earlier request still in flight
C29_Witness ==
    /\ last.op = "admit"
    /\ last.status = 503
    /\ last.message = CircuitOpenMessage
    /\ circuits[last.service].lastFailureTime < now
    /\ inflight # EmptyBag

\* ------------------------------------------------------------------------
\* Isolation of the circuits (checked under SpecPair)
\* ------------------------------------------------------------------------
\* C30: an admission check or a recorded outcome for one service never changes
\* the failure count, lastFailureTime or phase of the circuit of another
\* service, nor removes it.
C30_OtherCircuitsUntouched ==
    [][\A s \in DOMAIN circuits :
          s # last'.service =>
              /\ s \in DOMAIN circuits'
              /\ circuits'[s] = circuits[s]]_vars

\* a failure has just opened the circuit of one service while the circuit of
\* the other is HALF_OPEN with its probe in flight
C30_Witness ==
    \E a, b \in DOMAIN circuits :
        /\ a # b
        /\ last.service = a
        /\ last.outcome = "failure"
        /\ circuits[a].state = "OPEN"
        /\ circuits[b].state = "HALF_OPEN"
        /\ \E r \in BagToSet(inflight) : r.service = b

\* ------------------------------------------------------------------------
\* Progress of an OPEN circuit (checked under SpecBreakerLive)
\* ------------------------------------------------------------------------
LastFailureOf(cs, serviceName) ==
    IF serviceName \in DOMAIN cs THEN cs[serviceName].lastFailureTime ELSE 0

\* C31: an OPEN circuit is never stuck: when no further failure is recorded
\* for the service and requests to it keep arriving, then, once the reset
\* timeout has elapsed since the last recorded failure, a request is admitted
\* and the circuit leaves OPEN. (Stated for the failures whose timeout ends
\* within MaxTime: the circuit OPEN with its last failure at t leads to the
\* circuit not OPEN, or to a later failure.)
C31_OpenLeadsOut ==
    \A t \in 1..MaxTime :
        (/\ PhaseOf(circuits, "identities") = "OPEN"
         /\ LastFailureOf(circuits, "identities") = t
         /\ t + ResetTimeoutMs <= MaxTime)
            ~> (\/ PhaseOf(circuits, "identities") # "OPEN"
                \/ LastFailureOf(circuits, "identities") > t)

\* a request has just been admitted by a circuit that was OPEN, which is
\* HALF_OPEN now
C31_Witness ==
    /\ last.op = "admit"
    /\ last.gatePhase = "OPEN"
    /\ last.forwarded
    /\ circuits[last.service].state = "HALF_OPEN"
    /\ now - circuits[last.service].lastFailureTime >= ResetTimeoutMs

\* ------------------------------------------------------------------------
\* The authentication stage (checked under Spec)
\* ------------------------------------------------------------------------
\* C32: each run of the authentication stage (jwtAuth, and optionalAuth which
\* delegates to it) does exactly one of two things: it hands the request to
\* the next stage, or it sends one rejection response; never both and never
\* neither.
C32_NextOrResponse ==
    (/\ last.op = "request"
     /\ last.route \in ProxyRoutes
     /\ last.status \notin {429, 503})
        => /\ last.forwarded <=> last.status = 0
           /\ last.forwarded => last.body = {}
           /\ ~last.forwarded => (last.status \in {401, 500} /\ last.body = Envelope)

\* optionalAuth has rejected a request whose header does not validate
C32_Witness ==
    /\ last.op = "request"
    /\ last.route \in OptionalRoutes
    /\ last.auth.scheme # ""
    /\ last.status = 401
    /\ ~last.forwarded

\* ------------------------------------------------------------------------
\* The role check (checked under SpecRole)
\* ------------------------------------------------------------------------
\* C33: requireRole(R) hands a request to the next stage if and only if an
\* identity is attached and at least one role of R is among the identity's
\* roles; without an identity it answers 401, and with an identity that holds
\* none of the roles of R (R empty included) it answers 403.
C33_RoleCheck ==
    (call.fn = "requireRole" /\ call.done) =>
        LET R == IF call.requiredRoles.isArray THEN call.requiredRoles.value
                 ELSE {call.requiredRoles.value}
            attached == call.user # NoUser
            holds == attached /\ (R \cap call.user.roles) # {}
        IN  /\ call.result.next <=> holds
            /\ ~attached => call.result.status = 401
            /\ (attached /\ ~holds) => call.result.status = 403
            /\ holds => call.result.status = 0

\* an identity with roles is refused by requireRole([])
C33_Witness ==
    /\ call.fn = "requireRole"
    /\ call.done
    /\ call.requiredRoles = [isArray |-> TRUE, value |-> {}]
    /\ call.user # NoUser
    /\ call.user.roles # {}
    /\ call.result.status = 403
    /\ ~call.result.next

\* ------------------------------------------------------------------------
\* Loading the configuration (checked under SpecConfig)
\* ------------------------------------------------------------------------
\* C34: loading the configuration fails exactly when the JWT secret is shorter
\* than 32 characters, or the environment is production and the secret is
\* empty or the built-in default; so with JWT_SECRET not set the built-in
\* default is refused in every environment, the non-production ones included
\* where it also produces the warning.
C34_ConfigFails ==
    (call.fn = "loadConfig" /\ call.done) =>
        LET secret == call.result.config.jwt.secret
            production == call.result.config.nodeEnv = "production"
        IN  /\ call.result.threw <=>
                   \/ Len(secret) < 32
                   \/ production /\ (secret = "" \/ secret = "super-secret-jwt-key")
            /\ ~call.env.JWT_SECRET.set =>
                   /\ secret = "super-secret-jwt-key"
                   /\ call.result.threw
                   /\ ~production => call.result.warnings # {}

\* outside production the unset secret is warned about and refused all the same
C34_Witness ==
    /\ call.fn = "loadConfig"
    /\ call.done
    /\ ~call.env.JWT_SECRET.set
    /\ call.env.NODE_ENV = [set |-> TRUE, value |-> "development"]
    /\ call.result.warnings # {}
    /\ call.result.threw

====
